---- MODULE Spec2Model ----
(***************************************************************************)
(* FLUQ Alpha 1.0: the round orchestrator (src/src/index.js), the mixer    *)
(* (src/src/mixer/mixRandomness.js), the reward engine                     *)
(* (src/src/token/rewardEngine.js) and the modules they import.            *)
(*                                                                         *)
(* Representation.  A JavaScript value is a record [t, v]: t is its shape  *)
(* and v a sequence of integers, the bytes of a Buffer or the character    *)
(* codes of a string (ASCII, so the UTF-8 bytes of a string are its        *)
(* character codes).  A SHA-256 digest is a record [alg, pre]: the hash    *)
(* is modelled as injective on its pre-image.                              *)
(***************************************************************************)
EXTENDS Integers, Sequences, FiniteSets, TLC

VARIABLES
    pc,            \* position in runRound (the line about to run), or "end"
    ret,           \* runRound's promise: "pending", "record", "undefined", "TypeError"
    logs,          \* warn and error lines written so far (a set of tags)
    mods,          \* the four collector modules as imported: what collect() does
    calls,         \* per collector: safeCollect "idle", "awaiting" or "settled"
    bufs,          \* per collector: the Buffer safeCollect returned
    roundId,       \* index.js:79
    prevRoundHash, \* index.js:80
    E_i,           \* index.js:107
    s_i,           \* index.js:111
    commit,        \* index.js:116
    reveal,        \* the (E, s, id) disclosed for verification
    recomputed,    \* index.js:120
    reveals,       \* index.js:128
    inputs,        \* mixRandomness: the caller's inputs array
    opts,          \* mixRandomness: the caller's opts
    mixOut,        \* mixRandomness: how the returned promise settled
    roundSeed,     \* index.js:139
    cheatResult,   \* index.js:143
    scoreResult,   \* index.js:151
    tokensAwarded, \* index.js:155
    record,        \* index.js:159, <<>> until built
    callScore,     \* rewardEngine.js: the score argument of the call
    callMinerId,   \* rewardEngine.js: the minerId argument of the call
    ledger,        \* rewardEngine.js: the balances object the caller holds
    rewardOut,     \* rewardEngine.js: what the call returned or threw
    detCurrent,    \* cheatDetector.js: the currentRandomness argument
    detPrevious,   \* cheatDetector.js: the previousRandomness argument
    detectOut,     \* cheatDetector.js: what detectCheating returned
    scContribs,    \* uniquenessScore.js: the allRandomness argument
    scOptions,     \* uniquenessScore.js: the options argument
    scoreOut,      \* uniquenessScore.js: what computeUniquenessScore returned or threw
    normX,         \* index.js:38: the argument of normalizeToBuffer
    normR,         \* index.js:39,52: what crypto.randomBytes(32) returns if called
    normOut,       \* index.js:38: what normalizeToBuffer returned
    paid,          \* per contributor: the tokens the successful awards returned
    nAwards,       \* the number of awardTokensToBalance calls made on the ledger
    mcOpts,        \* mouseCollector.js:18: opts
    samples,       \* mouseCollector.js:19
    running,       \* mouseCollector.js:20
    pointerHandler, \* mouseCollector.js:21: "null" or "handler"
    listening,     \* whether window holds the pointermove listener
    mcClock,       \* performance.now()
    chunkOut       \* mouseCollector.js:85: what getEntropyChunk resolved with

fanVars == <<mods, calls, bufs>>
metaVars == <<roundId, prevRoundHash>>
crVars == <<E_i, s_i, commit, reveal, recomputed>>
mixVars == <<inputs, opts, mixOut>>
tailVars == <<reveals, roundSeed, cheatResult, scoreResult, tokensAwarded, record>>

rewardVars == <<callScore, callMinerId, ledger, rewardOut>>
detVars == <<detCurrent, detPrevious, detectOut>>
scoreVars == <<scContribs, scOptions, scoreOut>>
normVars == <<normX, normR, normOut>>
ledVars == <<paid, nAwards>>
ptrVars == <<mcOpts, samples, running, pointerHandler, listening, mcClock, chunkOut>>
moreVars == <<normVars, ledVars, ptrVars>>
extVars == <<rewardVars, detVars, scoreVars, moreVars>>
vars == <<pc, ret, logs, fanVars, metaVars, crVars, mixVars, tailVars, extVars>>

----------------------------------------------------------------------------
(* Bounds *)

\* number of distinct values crypto.randomBytes(32) is drawn from
NRand == 2

\* number of distinct digests hashUtils.sha512 is drawn from
NDigest == 2

\* number of distinct readings of Date.now()
NClock == 2

\* longest inputs array handed to mixRandomness on its own
MaxInputs == 3

\* longest E, s and round id in the commitment law
MaxStr == 2

\* a number is held as a count of 1/NumUnit: the non-integers are the
\* multiples of 1/NumUnit
NumUnit == 2

\* scores handed to the reward engine run from -ScoreSpan to 100 + ScoreSpan
ScoreSpan == 50

\* longest of the short buffers handed to the cheat detector
MaxBuf == 4

\* longest list of contributions handed to the scorer
MaxContribs == 2

----------------------------------------------------------------------------
(* Values *)

BufV(b) == [t |-> "buf", v |-> b]
StrV(s) == [t |-> "str", v |-> s]
ObjHexV(s) == [t |-> "objhex", v |-> s]
UndefV == [t |-> "undef", v |-> <<>>]
OtherV == [t |-> "other", v |-> <<>>]
NullV == [t |-> "null", v |-> <<>>]
NaNV == [t |-> "NaN", v |-> <<>>]
FuncV == [t |-> "function", v |-> <<>>]

\* a number, x counting 1/NumUnit; IntV(k) is the integer k
NumV(x) == [t |-> "num", v |-> <<x>>]
IntV(k) == NumV(k * NumUnit)

\* a call that ended with throw new TypeError(msg)
Threw(msg) == [st |-> "threw", error |-> "TypeError", message |-> msg]

\* an object with the own properties DOMAIN f (keys are strings)
ObjV(f) == [t |-> "obj", v |-> f]

\* '0'..'9', 'a'..'f', 'A'..'F'
HexDigits == (48..57) \cup (97..102) \cup (65..70)

HexVal(c) == IF c \in 48..57 THEN c - 48 ELSE IF c \in 97..102 THEN c - 87 ELSE c - 55

HexChar(n) == IF n < 10 THEN 48 + n ELSE 87 + n

\* buf.toString('hex'): two lowercase hex characters per byte
ToHex(b) ==
    [i \in 1..(2 * Len(b)) |->
        IF i % 2 = 1 THEN HexChar(b[(i + 1) \div 2] \div 16)
                     ELSE HexChar(b[i \div 2] % 16)]

IsHexString(s) == Len(s) > 0 /\ \A i \in 1..Len(s) : s[i] \in HexDigits

\* Buffer.from(s, 'hex'): decodes pairs up to the first pair that is not hex;
\* a trailing single character is dropped
FromHex(s) ==
    LET pairs == Len(s) \div 2
        ok(k) == s[2 * k - 1] \in HexDigits /\ s[2 * k] \in HexDigits
        bad == {k \in 1..pairs : ~ok(k)}
        n == IF bad = {} THEN pairs
             ELSE (CHOOSE k \in bad : \A j \in bad : k <= j) - 1
    IN  [k \in 1..n |-> 16 * HexVal(s[2 * k - 1]) + HexVal(s[2 * k])]

\* x.replace(/^0x/, '')
Strip0x(s) ==
    IF Len(s) >= 2 /\ s[1] = 48 /\ s[2] = 120 THEN SubSeq(s, 3, Len(s)) ELSE s

\* crypto.randomBytes(n): one of NRand buffers of n bytes
RandomBytes(n) == {[i \in 1..n |-> 200 + k] : k \in 1..NRand}

FallbackLen == 32

\* !x : undefined, null, 0, NaN, false and the empty string
Falsy(x) ==
    \/ x.t \in {"undef", "null", "NaN"}
    \/ x.t = "str" /\ x.v = <<>>
    \/ x.t = "num" /\ x.v = <<0>>

\* normalizeToBuffer(x); r is the value crypto.randomBytes(32) returns if called
normalizeToBuffer(x, r) ==
    IF Falsy(x) THEN r
    ELSE IF x.t = "buf" THEN x.v
    ELSE IF x.t = "str" THEN
        LET s == Strip0x(x.v)
        IN  IF ~IsHexString(s) \/ Len(s) % 2 # 0 THEN s ELSE FromHex(s)
    ELSE IF x.t = "objhex" THEN FromHex(Strip0x(x.v))
    ELSE r

----------------------------------------------------------------------------
(* Hashing *)

NoDigest == [alg |-> "none", pre |-> <<>>]

\* crypto.createHash('sha256').update(buf).digest('hex'), injective on buf
sha256Hex(b) == [alg |-> "sha256", pre |-> b]

\* hash.js sha256(input): a string is hashed as its UTF-8 bytes
sha256(str) == sha256Hex(str)

\* the names src/utils/hash.js exports
HashExports == {"sha256", "blake2b", "keccak256", "hashAll"}

DigestHexLen == 128

\* values of a 512-bit digest in hex: 128 lowercase hex characters
Sha512Values == {[i \in 1..DigestHexLen |-> HexChar((i * k) % 16)] : k \in 1..NDigest}

\* what a sha512 of the hash module would return for str: some 512-bit digest
\* in hex (the digest is not computed; the repository has no such function)
sha512(str) == Sha512Values

----------------------------------------------------------------------------
(* mixer/mixRandomness.js *)

\* JSON.stringify(x) of a value that is neither a Buffer nor a string:
\* true, or an object {"hex":"..."}
JsonText(x) ==
    IF x.t = "objhex"
    THEN <<123, 34, 104, 101, 120, 34, 58, 34>> \o x.v \o <<34, 125>>
    ELSE <<116, 114, 117, 101>>

\* toBuffer(x) of the mixer throws on undefined: JSON.stringify(undefined) is
\* undefined, and Buffer.from(undefined, 'utf8') is a TypeError
mixToBufferThrows(x) == x.t = "undef"

\* toBuffer(x) of the mixer
mixToBuffer(x) ==
    IF x.t = "buf" THEN x.v
    ELSE IF x.t = "str"
    THEN IF IsHexString(x.v) /\ Len(x.v) % 2 = 0 THEN FromHex(x.v) ELSE x.v
    ELSE JsonText(x)

\* the swap without the temporary: arr[i] is overwritten and lost
Swap_NoTmp(arr, i, j) == [arr EXCEPT ![i] = arr[j]]

\* mixRandomness.js:40-42
Swap(arr, i, j) == [arr EXCEPT ![i] = arr[j], ![j] = arr[i]]

\* the values crypto.randomInt returns in one shuffle of n items: at index i
\* (1-based here) a position in 1..i
ShuffleDraws(n) == {d \in [2..n -> 1..n] : \A i \in 2..n : d[i] <= i}

RECURSIVE ShuffleFrom(_, _, _)
ShuffleFrom(arr, i, draws) ==
    IF i < 2 THEN arr ELSE ShuffleFrom(Swap(arr, i, draws[i]), i - 1, draws)

\* secureShuffle(buffers): Fisher-Yates on a copy, from the last index down
secureShuffle(buffers, draws) == ShuffleFrom(buffers, Len(buffers), draws)

RECURSIVE Concat(_)
Concat(parts) == IF parts = <<>> THEN <<>> ELSE Head(parts) \o Concat(Tail(parts))

NoOpts == [salt |-> UndefV, roundId |-> UndefV, prevHash |-> UndefV]

NoMix == [st |-> "none", finalHash |-> NoDigest, shuffledHex |-> <<>>, preImageHex |-> <<>>]

\* opts.salt ? toBuffer(opts.salt) : Buffer.alloc(0); an empty Buffer is truthy
OptBuf(x) == IF Falsy(x) THEN <<>> ELSE mixToBuffer(x)

\* opts.roundId, unless undefined or null, as toBuffer(String(opts.roundId))
RoundBuf(x) == IF x.t = "undef" THEN <<>> ELSE mixToBuffer(StrV(x.v))

\* mixRandomness(inputs, opts); draws are the values of crypto.randomInt
mixRandomness(in, o, draws) ==
    IF ~in.isArray \/ \E k \in 1..Len(in.items) : mixToBufferThrows(in.items[k])
    THEN [NoMix EXCEPT !.st = "rejected"]
    ELSE LET buffers == [k \in 1..Len(in.items) |-> mixToBuffer(in.items[k])]
             shuffled == secureShuffle(buffers, draws)
             concatenated == OptBuf(o.salt) \o RoundBuf(o.roundId) \o OptBuf(o.prevHash)
                             \o Concat(shuffled)
         IN  [st |-> "fulfilled",
              finalHash |-> sha256Hex(concatenated),
              shuffledHex |-> [k \in 1..Len(shuffled) |-> ToHex(shuffled[k])],
              preImageHex |-> ToHex(concatenated)]

\* what the call leaves in the array the caller passed: inputs.map and
\* buffers.slice() build new arrays, the shuffle swaps in the copy
CallerArrayAfter(in, draws) == in

----------------------------------------------------------------------------
(* index.js: the state of one runRound *)

Collectors == <<"mouse", "keyboard", "cpu", "crypto">>
CollectorNames == {Collectors[i] : i \in 1..Len(Collectors)}

\* what a collector's collect() may hand back: a Buffer, the hex string "0a"
CollectorOutputs == {BufV(<<10, 171>>), StrV(<<48, 97>>)}

\* a collector module: no collect export, collect() throws, its promise
\* rejects, resolves with a value, or never settles
Behaviours ==
    {[kind |-> k, out |-> UndefV] : k \in {"nocollect", "throws", "rejects", "hangs"}}
    \cup {[kind |-> "resolves", out |-> o] : o \in CollectorOutputs}

\* the collectors of the repository: mouseCollector.js and keyboardCollector.js
\* export no collect; cpuNoiseCollector.js and cryptoCollector.js resolve with
\* a Buffer
RepoCollectors ==
    [c \in CollectorNames |->
        IF c \in {"mouse", "keyboard"} THEN [kind |-> "nocollect", out |-> UndefV]
        ELSE [kind |-> "resolves", out |-> BufV(<<10, 171>>)]]

RECURSIVE Decimal(_)
Decimal(n) == IF n < 10 THEN <<48 + n>> ELSE Decimal(n \div 10) \o <<48 + (n % 10)>>

\* `round-${Date.now()}`
RoundIdOf(now) == <<114, 111, 117, 110, 100, 45>> \o Decimal(now)

RoundIds == {RoundIdOf(now) : now \in 1..NClock}

HexWidth == 64

\* process.env.PREV_ROUND_HASH: unset, or a 64 character hex string
PrevHashEnv == {<<>>, [i \in 1..HexWidth |-> IF i % 2 = 1 THEN 97 ELSE 98]}

\* process.env.PREV_ROUND_HASH || '0'.repeat(64)
PrevRoundHashOf(env) == IF env = <<>> THEN [i \in 1..HexWidth |-> 48] ELSE env

PrevRoundHashes == {PrevRoundHashOf(env) : env \in PrevHashEnv}

NoReveal == [E |-> <<>>, s |-> <<>>, id |-> <<>>]
NoInputs == [isArray |-> TRUE, items |-> <<>>]
NoSeed == [t |-> "unset"]
NoCheat == [set |-> FALSE, cheated |-> FALSE, reason |-> ""]
NoScore == [set |-> FALSE, score |-> 0]

FanUnset ==
    /\ calls = [c \in CollectorNames |-> "idle"]
    /\ bufs = [c \in CollectorNames |-> <<>>]

MetaUnset == roundId = <<>> /\ prevRoundHash = <<>>

CrUnset ==
    /\ E_i = <<>>
    /\ s_i = <<>>
    /\ commit = NoDigest
    /\ reveal = NoReveal
    /\ recomputed = NoDigest

MixUnset == inputs = NoInputs /\ opts = NoOpts /\ mixOut = NoMix

TailUnset ==
    /\ reveals = <<>>
    /\ roundSeed = NoSeed
    /\ cheatResult = NoCheat
    /\ scoreResult = NoScore
    /\ tokensAwarded = -1
    /\ record = <<>>

\* no call made yet
NoCall == [st |-> "none"]

RewardUnset ==
    /\ callScore = UndefV
    /\ callMinerId = UndefV
    /\ ledger = UndefV
    /\ rewardOut = NoCall

DetUnset ==
    /\ detCurrent = <<>>
    /\ detPrevious = UndefV
    /\ detectOut = NoCall

ScoreUnset ==
    /\ scContribs = NoInputs
    /\ scOptions = UndefV
    /\ scoreOut = NoCall

NormUnset ==
    /\ normX = UndefV
    /\ normR = <<>>
    /\ normOut = NoCall

LedUnset == paid = <<>> /\ nAwards = 0

\* mouseCollector.js:11-21: the module as loaded
DEFAULT_OPTIONS ==
    [sampleLimit |-> 5000, sampleMinDeltaMs |-> 0, minSamplesForChunk |-> 16,
     includeDeviceFingerprint |-> TRUE]

PtrUnset ==
    /\ mcOpts = DEFAULT_OPTIONS
    /\ samples = <<>>
    /\ running = FALSE
    /\ pointerHandler = "null"
    /\ listening = FALSE
    /\ mcClock = 0
    /\ chunkOut = NoCall

MoreUnset == NormUnset /\ LedUnset /\ PtrUnset

ExtUnset == RewardUnset /\ DetUnset /\ ScoreUnset /\ MoreUnset

----------------------------------------------------------------------------
(* index.js:75-108: runRound from its call to the hashing of E *)

Init ==
    /\ pc = "L76"
    /\ ret = "pending"
    /\ logs = {}
    /\ mods \in [CollectorNames -> Behaviours]
    /\ FanUnset
    /\ MetaUnset
    /\ CrUnset
    /\ MixUnset
    /\ TailUnset
    /\ ExtUnset

\* safeCollect up to its first suspension: without collect(), or when collect()
\* throws, it returns the fallback at once; otherwise it awaits collect()
SyncSettles(m) == m.kind \in {"nocollect", "throws"}

SafeCollectLog(m) ==
    IF m.kind = "nocollect" THEN {"warn: collect() not found"}
    ELSE IF m.kind \in {"throws", "rejects"} THEN {"error: collect() threw"}
    ELSE {}

\* index.js:76-92: runRound starts, names the round, and calls safeCollect on
\* the four modules in order; each call runs to its first await
StartRound ==
    /\ pc = "L76"
    /\ roundId' \in RoundIds
    /\ prevRoundHash' \in PrevRoundHashes
    /\ \E r \in [CollectorNames -> RandomBytes(FallbackLen)] :
        /\ calls' = [c \in CollectorNames |->
                        IF SyncSettles(mods[c]) THEN "settled" ELSE "awaiting"]
        /\ bufs' = [c \in CollectorNames |->
                        IF SyncSettles(mods[c]) THEN r[c] ELSE <<>>]
    /\ logs' = logs \cup UNION {SafeCollectLog(mods[c]) :
                                  c \in {d \in CollectorNames : SyncSettles(mods[d])}}
    /\ pc' = "L87"
    /\ UNCHANGED <<extVars, ret, mods, crVars, mixVars, tailVars>>

\* safeCollect without its fallback: a rejection yields an empty value
SafeCollectResult_NoFallback(m, r) ==
    IF m.kind = "resolves" THEN normalizeToBuffer(m.out, r) ELSE <<>>

\* the value safeCollect returns once collect()'s promise has settled
SafeCollectResult(m, r) ==
    IF m.kind = "resolves" THEN normalizeToBuffer(m.out, r) ELSE r

\* index.js:61-66: collect()'s promise settles and safeCollect resumes
CollectSettles(c) ==
    /\ pc = "L87"
    /\ calls[c] = "awaiting"
    /\ mods[c].kind \in {"resolves", "rejects"}
    /\ \E r \in RandomBytes(FallbackLen) :
        bufs' = [bufs EXCEPT ![c] = SafeCollectResult(mods[c], r)]
    /\ calls' = [calls EXCEPT ![c] = "settled"]
    /\ logs' = logs \cup SafeCollectLog(mods[c])
    /\ UNCHANGED <<extVars, pc, ret, mods, metaVars, crVars, mixVars, tailVars>>

\* index.js:87: Promise.all fulfils when the four promises have
AllSettled ==
    /\ pc = "L87"
    /\ \A c \in CollectorNames : calls[c] = "settled"
    /\ pc' = "L94"
    /\ UNCHANGED <<extVars, ret, logs, fanVars, metaVars, crVars, mixVars, tailVars>>

\* bufferToHex(buf), index.js:69-73 (a Buffer is never falsy)
bufferToHex(b) == ToHex(b)

\* .padEnd(64, '0').slice(0, 64)
PadSlice(s) == [i \in 1..HexWidth |-> IF i <= Len(s) THEN s[i] ELSE 48]

\* index.js:95-106: collected, piecesOrdered and concatenatedHex
ConcatenatedHex(b) ==
    Concat([k \in 1..Len(Collectors) |-> PadSlice(bufferToHex(b[Collectors[k]]))])

\* index.js:94-108: the four buffers become fixed-width hex pieces, are joined
\* in the order mouse, keyboard, cpu, crypto, and hashUtils.sha512 is called on
\* the result; calling a name the hash module does not export is a TypeError,
\* which rejects runRound's promise
BuildE ==
    /\ pc = "L94"
    /\ IF "sha512" \in HashExports
       THEN /\ E_i' \in sha512(ConcatenatedHex(bufs))
            /\ pc' = "L110"
            /\ ret' = ret
       ELSE /\ pc' = "end"
            /\ ret' = "TypeError"
            /\ E_i' = E_i
    /\ UNCHANGED <<extVars, logs, mods, calls, bufs, metaVars, s_i, commit, reveal, recomputed,
                   mixVars, tailVars>>

Next ==
    \/ StartRound
    \/ \E c \in CollectorNames : CollectSettles(c)
    \/ AllSettled
    \/ BuildE

Spec == Init /\ [][Next]_vars

\* the event loop runs every continuation that is ready
LiveSpec ==
    /\ Spec
    /\ WF_vars(StartRound)
    /\ \A c \in CollectorNames : WF_vars(CollectSettles(c))
    /\ WF_vars(AllSettled)
    /\ WF_vars(BuildE)

----------------------------------------------------------------------------
(* index.js:110-140: runRound from the secret to the round seed.  Line 107   *)
(* ends every run of the repository as it stands; this part starts where a  *)
(* hash module that exports sha512 would leave runRound at line 110.         *)

\* crypto.randomBytes(32).toString('hex')
Secrets == {ToHex(r) : r \in RandomBytes(FallbackLen)}

\* the commitment without the round id
Commitment_NoRoundId(E, s, id) == sha256(E \o s)

\* index.js:115-116: sha256(E_i + s_i + roundId)
Commitment(E, s, id) == sha256(E \o s \o id)

\* index.js:121-125: the recomputed commitment is compared with the recorded
\* one; on a mismatch an error line is logged and runRound returns undefined
VerifyOutcome(rec, com) ==
    IF rec # com
    THEN [pc |-> "end", ret |-> "undefined",
          log |-> {"error: Local commit verification failed; aborting."}]
    ELSE [pc |-> "L127", ret |-> "pending", log |-> {}]

\* the buffers the repository's collectors leave after the collection phase
RepoBufs ==
    {[c \in CollectorNames |-> SafeCollectResult(RepoCollectors[c], r[c])] :
        r \in [CollectorNames -> RandomBytes(FallbackLen)]}

FanDone ==
    /\ mods = RepoCollectors
    /\ calls = [c \in CollectorNames |-> "settled"]
    /\ bufs \in RepoBufs

InitStages ==
    /\ pc = "L110"
    /\ ret = "pending"
    /\ logs = {"warn: collect() not found"}
    /\ FanDone
    /\ roundId \in RoundIds
    /\ prevRoundHash \in PrevRoundHashes
    /\ E_i \in Sha512Values
    /\ s_i = <<>>
    /\ commit = NoDigest
    /\ reveal = NoReveal
    /\ recomputed = NoDigest
    /\ MixUnset
    /\ TailUnset
    /\ ExtUnset

\* index.js:110-112
GenSecret ==
    /\ pc = "L110"
    /\ s_i' \in Secrets
    /\ pc' = "L114"
    /\ UNCHANGED <<extVars, ret, logs, fanVars, metaVars, E_i, commit, reveal, recomputed,
                   mixVars, tailVars>>

\* the commit step handing over to the reveals without the verification
CommitStep_SkipVerify ==
    /\ pc = "L114"
    /\ commit' = Commitment(E_i, s_i, roundId)
    /\ pc' = "L127"
    /\ UNCHANGED <<extVars, ret, logs, fanVars, metaVars, E_i, s_i, reveal, recomputed,
                   mixVars, tailVars>>

\* index.js:114-117
CommitStep ==
    /\ pc = "L114"
    /\ commit' = Commitment(E_i, s_i, roundId)
    /\ pc' = "L119"
    /\ UNCHANGED <<extVars, ret, logs, fanVars, metaVars, E_i, s_i, reveal, recomputed,
                   mixVars, tailVars>>

\* index.js:119-125 on the disclosed (E, s, id)
VerifyReveal(rv) ==
    /\ pc = "L119"
    /\ reveal' = rv
    /\ recomputed' = Commitment(rv.E, rv.s, rv.id)
    /\ LET o == VerifyOutcome(recomputed', commit)
       IN  /\ pc' = o.pc
           /\ ret' = o.ret
           /\ logs' = logs \cup o.log
    /\ UNCHANGED <<extVars, fanVars, metaVars, E_i, s_i, commit, mixVars, tailVars>>

\* index.js:119-125: runRound recomputes from its own E_i, s_i and roundId
VerifyStep == VerifyReveal([E |-> E_i, s |-> s_i, id |-> roundId])

\* index.js:138: [prevRoundHash, roundId, ...E_list]
MixInputArray(prev, id, E_list) ==
    [isArray |-> TRUE,
     items |-> <<StrV(prev), StrV(id)>> \o [k \in 1..Len(E_list) |-> StrV(E_list[k])]]

\* index.js:139: the value of the call mixer.mixRandomness(mixInputArray): an
\* async function returns a promise (here one that fulfils with mixOut), and
\* the call is not awaited
MixerCallValue(result) == [t |-> "promise"]

\* index.js:127-139: the reveals array, E_list, and the call of the mixer
MixStep ==
    /\ pc = "L127"
    /\ reveals' = <<[node_id |-> "local-node-0", round_id |-> roundId,
                     E_i |-> E_i, s_i |-> s_i, commit |-> commit]>>
    /\ opts' = NoOpts
    /\ \E d \in ShuffleDraws(3) :
        LET arr == MixInputArray(prevRoundHash, roundId, <<E_i>>)
        IN  /\ inputs' = CallerArrayAfter(arr, d)
            /\ mixOut' = mixRandomness(arr, NoOpts, d)
    /\ roundSeed' = MixerCallValue(mixOut')
    /\ pc' = "L140"
    /\ UNCHANGED <<extVars, ret, logs, fanVars, metaVars, crVars,
                   cheatResult, scoreResult, tokensAwarded, record>>

\* index.js:140: roundSeed.slice(0, 16); a promise has no slice method, and
\* calling undefined is a TypeError, which rejects runRound's promise
SeedPrefix ==
    /\ pc = "L140"
    /\ IF roundSeed.t = "string"
       THEN pc' = "L142" /\ ret' = ret
       ELSE pc' = "end" /\ ret' = "TypeError"
    /\ UNCHANGED <<extVars, logs, fanVars, metaVars, crVars, mixVars, tailVars>>

NextStages ==
    \/ GenSecret
    \/ CommitStep
    \/ VerifyStep
    \/ MixStep
    \/ SeedPrefix

SpecStages == InitStages /\ [][NextStages]_vars

----------------------------------------------------------------------------
(* index.js:114-140 with the commitment verified against any disclosed       *)
(* (E, s, id): the same three, or the three with one of them changed         *)

Strs(n) == UNION {[1..k -> {97, 98}] : k \in 0..n}

\* what may be disclosed for a commitment to (E, s, id): the same three, or
\* the three with one of them changed
Disclosures(E, s, id) ==
    {[E |-> E, s |-> s, id |-> id]}
    \cup {[E |-> x, s |-> s, id |-> id] : x \in Strs(MaxStr)}
    \cup {[E |-> E, s |-> x, id |-> id] : x \in Strs(MaxStr)}
    \cup {[E |-> E, s |-> s, id |-> x] : x \in Strs(MaxStr)}

InitCommit ==
    /\ pc = "L114"
    /\ ret = "pending"
    /\ logs = {}
    /\ mods = RepoCollectors
    /\ FanUnset
    /\ roundId \in Strs(MaxStr)
    /\ prevRoundHash = PrevRoundHashOf(<<>>)
    /\ E_i \in Strs(MaxStr)
    /\ s_i \in Strs(MaxStr)
    /\ commit = NoDigest
    /\ reveal = NoReveal
    /\ recomputed = NoDigest
    /\ MixUnset
    /\ TailUnset
    /\ ExtUnset

VerifyDisclosed == \E rv \in Disclosures(E_i, s_i, roundId) : VerifyReveal(rv)

\* commit, verification of whatever is disclosed, and on success the stages
\* of lines 127-140
NextCommit ==
    \/ CommitStep
    \/ VerifyDisclosed
    \/ MixStep
    \/ SeedPrefix

SpecCommit == InitCommit /\ [][NextCommit]_vars

----------------------------------------------------------------------------
(* detector/cheatDetector.js *)

\* number of positions of buf that hold the byte b
Count(buf, b) == Cardinality({i \in 1..Len(buf) : buf[i] = b})

\* Math.log2(n) in millionths, n = 1..64
Log2Micro ==
    <<0, 1000000, 1584963, 2000000, 2321928, 2584963, 2807355, 3000000,
      3169925, 3321928, 3459432, 3584963, 3700440, 3807355, 3906891, 4000000,
      4087463, 4169925, 4247928, 4321928, 4392317, 4459432, 4523562, 4584963,
      4643856, 4700440, 4754888, 4807355, 4857981, 4906891, 4954196, 5000000,
      5044394, 5087463, 5129283, 5169925, 5209453, 5247928, 5285402, 5321928,
      5357552, 5392317, 5426265, 5459432, 5491853, 5523562, 5554589, 5584963,
      5614710, 5643856, 5672425, 5700440, 5727920, 5754888, 5781360, 5807355,
      5832890, 5857981, 5882643, 5906891, 5930737, 5954196, 5977280, 6000000>>

RECURSIVE SumOver(_, _, _)
SumOver(S, buf, n) ==
    IF S = {} THEN 0
    ELSE LET b == CHOOSE x \in S : TRUE
             c == Count(buf, b)
         IN  c * (Log2Micro[n] - Log2Micro[c]) + SumOver(S \ {b}, buf, n)

\* calculateEntropy(buffer) times buffer.length, in millionths of a bit: the
\* sum over the byte values of count * log2(length / count); 0 for no bytes
calculateEntropy(buffer) ==
    SumOver({buffer[i] : i \in 1..Len(buffer)}, buffer, Len(buffer))

\* bufferSimilarity(buf1, buf2): positions of the shorter length that hold the
\* same byte, as same / len * 100; 0 / 0 is NaN
bufferSimilarity(buf1, buf2) ==
    LET len == IF Len(buf1) < Len(buf2) THEN Len(buf1) ELSE Len(buf2)
    IN  [same |-> Cardinality({i \in 1..len : buf1[i] = buf2[i]}), len |-> len]

NotCheated == [st |-> "returned", cheated |-> FALSE, reason |-> "null"]

Cheated(why) == [st |-> "returned", cheated |-> TRUE, reason |-> why]

\* detectCheating with the similarity check ahead of the repetition check
detectCheating_SimilarityFirst(currentRandomness, previousRandomness) ==
    LET sim == bufferSimilarity(currentRandomness, previousRandomness.v)
    IN  IF ~Falsy(previousRandomness) /\ sim.len > 0 /\ sim.same * 100 > 85 * sim.len
        THEN Cheated("Randomness is suspiciously similar to previous round")
        ELSE IF \E i \in 1..Len(currentRandomness) :
                    2 * Count(currentRandomness, currentRandomness[i])
                        > Len(currentRandomness)
        THEN Cheated("Too many repeated values (low randomness)")
        ELSE IF calculateEntropy(currentRandomness) < 4000000 * Len(currentRandomness)
                \/ Len(currentRandomness) = 0
        THEN Cheated("Entropy too low")
        ELSE NotCheated

\* detectCheating without the comparison with the previous round
detectCheating_NoSimilarity(currentRandomness, previousRandomness) ==
    IF \E i \in 1..Len(currentRandomness) :
            2 * Count(currentRandomness, currentRandomness[i])
                > Len(currentRandomness)
    THEN Cheated("Too many repeated values (low randomness)")
    ELSE IF calculateEntropy(currentRandomness) < 4000000 * Len(currentRandomness)
            \/ Len(currentRandomness) = 0
    THEN Cheated("Entropy too low")
    ELSE NotCheated

\* detectCheating with the repetition check passing at half the length
detectCheating_FromHalf(currentRandomness, previousRandomness) ==
    LET sim == bufferSimilarity(currentRandomness, previousRandomness.v)
    IN  IF \E i \in 1..Len(currentRandomness) :
                2 * Count(currentRandomness, currentRandomness[i])
                    >= Len(currentRandomness)
        THEN Cheated("Too many repeated values (low randomness)")
        ELSE IF ~Falsy(previousRandomness) /\ sim.len > 0 /\ sim.same * 100 > 85 * sim.len
        THEN Cheated("Randomness is suspiciously similar to previous round")
        ELSE IF calculateEntropy(currentRandomness) < 4000000 * Len(currentRandomness)
                \/ Len(currentRandomness) = 0
        THEN Cheated("Entropy too low")
        ELSE NotCheated

\* detectCheating with the similarity check passing at 85%
detectCheating_From85(currentRandomness, previousRandomness) ==
    LET sim == bufferSimilarity(currentRandomness, previousRandomness.v)
    IN  IF \E i \in 1..Len(currentRandomness) :
                2 * Count(currentRandomness, currentRandomness[i])
                    > Len(currentRandomness)
        THEN Cheated("Too many repeated values (low randomness)")
        ELSE IF ~Falsy(previousRandomness) /\ sim.len > 0 /\ sim.same * 100 >= 85 * sim.len
        THEN Cheated("Randomness is suspiciously similar to previous round")
        ELSE IF calculateEntropy(currentRandomness) < 4000000 * Len(currentRandomness)
                \/ Len(currentRandomness) = 0
        THEN Cheated("Entropy too low")
        ELSE NotCheated

\* cheatDetector.js:52-97 detectCheating(currentRandomness, previousRandomness)
\* on a Buffer and a Buffer or null.  The repetition loop returns as soon as a
\* byte's running count passes length * 0.5, which happens exactly when some
\* byte's count does; the reasons are given without the figures they end with
detectCheating(currentRandomness, previousRandomness) ==
    LET sim == bufferSimilarity(currentRandomness, previousRandomness.v)
    IN  IF \E i \in 1..Len(currentRandomness) :
                2 * Count(currentRandomness, currentRandomness[i])
                    > Len(currentRandomness)
        THEN Cheated("Too many repeated values (low randomness)")
        ELSE IF ~Falsy(previousRandomness) /\ sim.len > 0 /\ sim.same * 100 > 85 * sim.len
        THEN Cheated("Randomness is suspiciously similar to previous round")
        ELSE IF calculateEntropy(currentRandomness) < 4000000 * Len(currentRandomness)
                \/ Len(currentRandomness) = 0
        THEN Cheated("Entropy too low")
        ELSE NotCheated

----------------------------------------------------------------------------
(* scoring/uniquenessScore.js.  The sub-scores are held in thousandths and   *)
(* the entropies in millionths of a bit, rounded down: a score can differ by *)
(* one from the double arithmetic next to a rounding boundary.               *)

\* toBuffer(x) of the scorer throws unless x is a Buffer or a string (or a
\* byte array, which the model does not hold)
scoreToBufferThrows(x) == x.t \notin {"buf", "str"}

\* shannonEntropyBits(buf) in millionths of a bit per byte
shannonEntropyBits(buf) ==
    IF Len(buf) = 0 THEN 0 ELSE calculateEntropy(buf) \div Len(buf)

\* blockEntropies(buf, 32)
blockEntropies(buf) ==
    [k \in 1..((Len(buf) + 31) \div 32) |->
        shannonEntropyBits(SubSeq(buf, 32 * (k - 1) + 1,
                                  IF 32 * k < Len(buf) THEN 32 * k ELSE Len(buf)))]

RECURSIVE SumSeq(_)
SumSeq(arr) == IF arr = <<>> THEN 0 ELSE Head(arr) + SumSeq(Tail(arr))

\* mean(arr)
mean(arr) == IF Len(arr) = 0 THEN 0 ELSE SumSeq(arr) \div Len(arr)

\* Math.sqrt(v), rounded down
Sqrt(v) == IF v = 0 THEN 0 ELSE CHOOSE r \in 0..8000 : r * r <= v /\ v < (r + 1) * (r + 1)

\* stddev(arr) of entropies given in millionths, in thousandths
stddev(arr) ==
    IF Len(arr) = 0 THEN 0
    ELSE LET m == mean(arr) \div 1000
         IN  Sqrt(SumSeq([k \in 1..Len(arr) |->
                             (arr[k] \div 1000 - m) * (arr[k] \div 1000 - m)])
                  \div Len(arr))

\* popcnt8(x ^ y): the number of bits in which the bytes x and y differ
BitDiff(x, y) ==
    Cardinality({i \in 0..7 : (x \div (2 ^ i)) % 2 # (y \div (2 ^ i)) % 2})

\* normalizedBitSimilarity(bufA, bufB) of two Buffers, in thousandths
normalizedBitSimilarity(a, b) ==
    LET len == IF Len(a) < Len(b) THEN Len(a) ELSE Len(b)
    IN  IF len = 0 THEN 0
        ELSE 1000 - (1000 * SumSeq([i \in 1..len |-> BitDiff(a[i], b[i])])) \div (8 * len)

\* the default weights, in thousandths
DefaultWeights == [entropy |-> 400, nonRepeat |-> 250, amount |-> 200, variation |-> 150]

ZeroScore ==
    [st |-> "returned", score |-> 0, category |-> "Low", entropyNorm |-> 0,
     nonRepeatNorm |-> 0, amountNorm |-> 0, variationNorm |-> 0]

Min(a, b) == IF a < b THEN a ELSE b
Max(a, b) == IF a > b THEN a ELSE b

\* a / b in thousandths, rounded down
Ratio(a, b) ==
    IF b > 0 THEN (1000 * a) \div b
    ELSE 0 - ((1000 * a + (0 - b) - 1) \div (0 - b))

\* options = {}: no previousRounds, no maxBits (0 stands for undefined as for
\* 0: options.maxBits || 2048), no weights
NoOptions ==
    [t |-> "obj", previousRounds |-> [isArray |-> FALSE, items |-> <<>>],
     maxBits |-> 0, weights |-> <<>>]

\* uniquenessScore.js:132-204: the score of the contributions left after the
\* filter, which are not empty
ScoreOf(contribs, options) ==
    IF \E k \in 1..Len(contribs) : scoreToBufferThrows(contribs[k])
    THEN Threw("Input must be Buffer, string, or byte array")
    ELSE IF options.t = "null"
    THEN Threw("Cannot read properties of null (reading 'previousRounds')")
    ELSE
    LET o == IF options.t = "undef" THEN NoOptions ELSE options
        buf == Concat([k \in 1..Len(contribs) |-> contribs[k].v])
        previousRounds == IF o.previousRounds.isArray THEN o.previousRounds.items ELSE <<>>
        maxBits == IF o.maxBits = 0 THEN 2048 ELSE o.maxBits
        weight(n) == IF n \in DOMAIN o.weights THEN o.weights[n] ELSE DefaultWeights[n]
        entropyNorm == Min(shannonEntropyBits(buf) \div 8000, 1000)
        amountNorm == Min(Ratio(Len(buf) * 8, maxBits), 1000)
        blockEnt == blockEntropies(buf)
        meanBlockEnt == mean(blockEnt)
        cov == IF meanBlockEnt > 100
               THEN (stddev(blockEnt) * 1000) \div Max(1, meanBlockEnt \div 1000)
               ELSE 0
        variationNorm == Min(2 * cov, 1000)
        sims == {normalizedBitSimilarity(buf, previousRounds[k].v) :
                    k \in {j \in 1..Len(previousRounds) :
                              ~scoreToBufferThrows(previousRounds[j])}}
        maxSim == IF sims = {} THEN 0 ELSE CHOOSE x \in sims : \A y \in sims : y <= x
        nonRepeatNorm == IF Len(previousRounds) > 0 THEN Max(0, 1000 - maxSim) ELSE 1000
        combined == entropyNorm * weight("entropy") + nonRepeatNorm * weight("nonRepeat")
                    + amountNorm * weight("amount") + variationNorm * weight("variation")
        scoreFloat == Max(0, Min(1000000, combined))
        score == (scoreFloat + 5000) \div 10000
    IN  [st |-> "returned",
         score |-> score,
         category |-> IF score >= 85 THEN "High Entropy"
                      ELSE IF score >= 65 THEN "Moderate-High"
                      ELSE IF score >= 40 THEN "Moderate" ELSE "Low",
         entropyNorm |-> entropyNorm,
         nonRepeatNorm |-> nonRepeatNorm,
         amountNorm |-> amountNorm,
         variationNorm |-> variationNorm]

\* computeUniquenessScore without the filter of null and undefined entries
computeUniquenessScore_NoFilter(allRandomness, options) ==
    IF allRandomness.items = <<>> THEN ZeroScore
    ELSE ScoreOf(allRandomness.items, options)

\* uniquenessScore.js:115-205 computeUniquenessScore(allRandomness, options);
\* a value that is not an array is scored as the array holding it
computeUniquenessScore(allRandomness, options) ==
    LET kept == SelectSeq(allRandomness.items,
                          LAMBDA x : x.t \notin {"null", "undef"})
    IN  IF kept = <<>> THEN ZeroScore ELSE ScoreOf(kept, options)

----------------------------------------------------------------------------
(* token/rewardEngine.js *)

\* Math.round(x): the nearest integer, a half rounding up
MathRound(x) == (2 * x + NumUnit) \div (2 * NumUnit)

\* computeReward with the brackets split at 80 instead of above it
computeReward_From80(score) ==
    IF score.t # "num"
    THEN Threw("computeReward: score must be a valid number")
    ELSE LET r == MathRound(score.v[1])
             s == IF r > 100 THEN 100 ELSE IF r < 0 THEN 0 ELSE r
         IN  [st |-> "returned", score |-> s,
              tokens |-> IF s >= 80 THEN 5 ELSE IF s >= 50 THEN 3 ELSE 1,
              category |-> IF s >= 80 THEN "High Entropy"
                           ELSE IF s >= 50 THEN "Medium Entropy" ELSE "Low Entropy"]

\* computeReward taking whatever is not a number as the score 0
computeReward_Coerce(score) ==
    LET x == IF score.t = "num" THEN score.v[1] ELSE 0
        r == MathRound(x)
        s == IF r > 100 THEN 100 ELSE IF r < 0 THEN 0 ELSE r
    IN  [st |-> "returned", score |-> s,
         tokens |-> IF s > 80 THEN 5 ELSE IF s >= 50 THEN 3 ELSE 1,
         category |-> IF s > 80 THEN "High Entropy"
                      ELSE IF s >= 50 THEN "Medium Entropy" ELSE "Low Entropy"]

\* rewardEngine.js:29-61 computeReward(score); typeof NaN is 'number'
computeReward(score) ==
    IF score.t \notin {"num", "NaN"} \/ score.t = "NaN"
    THEN Threw("computeReward: score must be a valid number")
    ELSE LET r == MathRound(score.v[1])
             s == IF r > 100 THEN 100 ELSE IF r < 0 THEN 0 ELSE r
         IN  [st |-> "returned", score |-> s,
              tokens |-> IF s > 80 THEN 5 ELSE IF s >= 50 THEN 3 ELSE 1,
              category |-> IF s > 80 THEN "High Entropy"
                           ELSE IF s >= 50 THEN "Medium Entropy" ELSE "Low Entropy",
              reason |-> IF s > 80 THEN "Score above 80: highest reward bracket"
                         ELSE IF s >= 50
                         THEN "Score between 50 and 80: medium reward bracket"
                         ELSE "Score below 50: baseline reward"]

\* names every plain object inherits from Object.prototype (among others):
\* "valueOf", "toString"
ObjectPrototypeKeys ==
    {<<118, 97, 108, 117, 101, 79, 102>>,
     <<116, 111, 83, 116, 114, 105, 110, 103>>}

\* obj[key] of a plain object: the own property, else the inherited method,
\* else undefined
Get(f, key) ==
    IF key \in DOMAIN f THEN f[key]
    ELSE IF key \in ObjectPrototypeKeys THEN FuncV
    ELSE UndefV

\* Number(x) of a number or a function
ToNumber(x) == IF x.t = "num" THEN x ELSE NaNV

\* x + n for an integer n; NaN + n is NaN
Plus(x, n) == IF x.t = "num" THEN NumV(x.v[1] + n * NumUnit) ELSE NaNV

\* rewardEngine.js:72-95 awardTokensToBalance(minerId, balances = {}, score)
awardTokensToBalance(minerId, balances, score) ==
    LET b == IF balances.t = "undef" THEN ObjV(<<>>) ELSE balances
    IN  IF minerId.t # "str" \/ Len(minerId.v) = 0
        THEN Threw("awardTokensToBalance: minerId must be a non-empty string")
        ELSE IF b.t # "obj"
        THEN Threw("awardTokensToBalance: balances must be an object (or omitted)")
        ELSE LET result == computeReward(score)
             IN  IF result.st = "threw" THEN result
                 ELSE LET own == Get(b.v, minerId.v)
                          prev == ToNumber(IF Falsy(own) THEN IntV(0) ELSE own)
                          updated == [k \in DOMAIN b.v \cup {minerId.v} |->
                                         IF k = minerId.v THEN Plus(prev, result.tokens)
                                                          ELSE b.v[k]]
                      IN  [st |-> "returned",
                           updatedBalances |-> ObjV(updated),
                           awarded |-> result.tokens,
                           meta |-> result]

\* the object the caller passed as balances, after the call: Object.assign
\* copies it into a new object, and only the copy is written
BalancesAfter(minerId, balances, score) == balances

----------------------------------------------------------------------------
(* index.js:142-171: runRound from cheat detection to the returned record.   *)
(* Lines 107 and 140 end every run of the repository as it stands; this part *)
(* runs the remaining lines on the locals that lines 110-139 leave.          *)

\* index.js:143: the argument of cheatDetector.check is reveals, the array of
\* reveal objects of index.js:128-134
DetectorArgument(revs) == [t |-> "array", v |-> revs]

\* cheatDetector.check(reveals) on an array of reveal objects: the repetition
\* check counts the array's elements under their property keys, every object
\* has the key "[object Object]", and the count passes half the length; an
\* empty array passes that loop and has entropy 0
check(revs) ==
    IF Len(revs) > 0
    THEN [set |-> TRUE, cheated |-> TRUE,
          reason |-> "Too many repeated values (low randomness)"]
    ELSE [set |-> TRUE, cheated |-> TRUE, reason |-> "Entropy too low (0.00)"]

\* scores uniquenessScore.evaluate can return: Math.round of a value clamped
\* to [0, 1] times 100; the brackets' edges, and the ends
Scores == {0, 49, 50, 80, 81, 100}

\* the names src/token/rewardEngine.js exports
RewardExports == {"computeReward", "awardTokensToBalance"}

InitTail ==
    /\ pc = "L142"
    /\ ret = "pending"
    /\ logs = {"warn: collect() not found"}
    /\ FanDone
    /\ roundId \in RoundIds
    /\ prevRoundHash \in PrevRoundHashes
    /\ E_i \in Sha512Values
    /\ s_i \in Secrets
    /\ commit = Commitment(E_i, s_i, roundId)
    /\ reveal = [E |-> E_i, s |-> s_i, id |-> roundId]
    /\ recomputed = commit
    /\ reveals = <<[node_id |-> "local-node-0", round_id |-> roundId,
                    E_i |-> E_i, s_i |-> s_i, commit |-> commit]>>
    /\ inputs = MixInputArray(prevRoundHash, roundId, <<E_i>>)
    /\ opts = NoOpts
    /\ \E d \in ShuffleDraws(3) : mixOut = mixRandomness(inputs, opts, d)
    /\ roundSeed = MixerCallValue(mixOut)
    /\ cheatResult = NoCheat
    /\ scoreResult = NoScore
    /\ tokensAwarded = -1
    /\ record = <<>>
    /\ ExtUnset

\* index.js:142-148
Detect ==
    /\ pc = "L142"
    /\ cheatResult' = check(DetectorArgument(reveals).v)
    /\ logs' = logs \cup (IF cheatResult'.cheated THEN {"warn: Cheating detected"}
                                                 ELSE {"info: No cheating detected."})
    /\ pc' = "L150"
    /\ UNCHANGED <<extVars, ret, fanVars, metaVars, crVars, mixVars, reveals, roundSeed,
                   scoreResult, tokensAwarded, record>>

\* index.js:150-152: uniquenessScore.evaluate(E_list)
Score ==
    /\ pc = "L150"
    /\ \E sc \in Scores : scoreResult' = [set |-> TRUE, score |-> sc]
    /\ pc' = "L154"
    /\ UNCHANGED <<extVars, ret, logs, fanVars, metaVars, crVars, mixVars, reveals,
                   roundSeed, cheatResult, tokensAwarded, record>>

\* index.js:154-156: rewardEngine.allocate, else rewardEngine.default, else 0;
\* what a function under either name would return is not in the repository
Reward ==
    /\ pc = "L154"
    /\ IF "allocate" \in RewardExports \/ "default" \in RewardExports
       THEN tokensAwarded' \in 0..5
       ELSE tokensAwarded' = 0
    /\ pc' = "L158"
    /\ UNCHANGED <<extVars, ret, logs, fanVars, metaVars, crVars, mixVars, reveals,
                   roundSeed, cheatResult, scoreResult, record>>

\* index.js:158-171: the record (its timestamp left out) is built and returned
Record ==
    /\ pc = "L158"
    /\ record' = <<[round_id |-> roundId,
                    prev_root_hash |-> prevRoundHash,
                    reveals |-> [k \in 1..Len(reveals) |->
                                    [node_id |-> reveals[k].node_id,
                                     commit |-> reveals[k].commit]],
                    R_round |-> roundSeed,
                    awarded |-> tokensAwarded]>>
    /\ ret' = "record"
    /\ pc' = "end"
    /\ UNCHANGED <<extVars, logs, fanVars, metaVars, crVars, mixVars, reveals, roundSeed,
                   cheatResult, scoreResult, tokensAwarded>>

NextTail ==
    \/ Detect
    \/ Score
    \/ Reward
    \/ Record

SpecTail == InitTail /\ [][NextTail]_vars

----------------------------------------------------------------------------
(* mixRandomness(inputs, opts) as a function of its arguments *)

\* the entries of an input array: Buffers, a hex string ("0a"), a text ("hi"),
\* and undefined
MixItems == {BufV(<<1>>), BufV(<<2>>), StrV(<<48, 97>>), StrV(<<104, 105>>), UndefV}

\* the first argument: an array of up to MaxInputs entries, or not an array
MixArgs ==
    {[isArray |-> FALSE, items |-> <<>>]}
    \cup {[isArray |-> TRUE, items |-> it] :
            it \in UNION {[1..n -> MixItems] : n \in 0..MaxInputs}}

\* the second argument: each option absent or present; salt "s" or an empty
\* Buffer, roundId "r1", prevHash the hex string "ab"
MixOpts ==
    [salt : {UndefV, StrV(<<115>>), BufV(<<>>)},
     roundId : {UndefV, StrV(<<114, 49>>)},
     prevHash : {UndefV, StrV(<<97, 98>>)}]

InitMix ==
    /\ pc = "mix"
    /\ ret = "pending"
    /\ logs = {}
    /\ mods = RepoCollectors
    /\ FanUnset
    /\ MetaUnset
    /\ CrUnset
    /\ inputs \in MixArgs
    /\ opts \in MixOpts
    /\ mixOut = NoMix
    /\ TailUnset
    /\ ExtUnset

\* mixRandomness.js:58-97: one call
MixCall ==
    /\ pc = "mix"
    /\ \E d \in ShuffleDraws(Len(inputs.items)) :
        /\ mixOut' = mixRandomness(inputs, opts, d)
        /\ inputs' = CallerArrayAfter(inputs, d)
    /\ pc' = "mixed"
    /\ UNCHANGED <<extVars, ret, logs, fanVars, metaVars, crVars, opts, tailVars>>

NextMix == MixCall

SpecMix == InitMix /\ [][NextMix]_vars

----------------------------------------------------------------------------
(* computeReward and awardTokensToBalance as functions of their arguments *)

\* score arguments: the numbers from -ScoreSpan to 100 + ScoreSpan in steps of
\* 1/NumUnit, NaN, the string "81", undefined and null
ScoreArgs ==
    {NumV(x) : x \in (0 - ScoreSpan * NumUnit)..((100 + ScoreSpan) * NumUnit)}
    \cup {NaNV, StrV(<<56, 49>>), UndefV, NullV}

\* the contributors "m1" and "m2"
Miners == {<<109, 49>>, <<109, 50>>}

\* minerId arguments: "m1", "m2", "valueOf", the empty string, 7, undefined
MinerArgs ==
    {StrV(m) : m \in Miners}
    \cup {StrV(<<118, 97, 108, 117, 101, 79, 102>>), StrV(<<>>), IntV(7), UndefV}

\* balances arguments: ledgers over m1 and m2 with balances 0 and 4; omitted,
\* null, a string and a number
LedgerArgs ==
    {ObjV(f) : f \in UNION {[ms -> {IntV(0), IntV(4)}] : ms \in SUBSET Miners}}
    \cup {UndefV, NullV, StrV(<<109, 49>>), IntV(3)}

InitReward ==
    /\ pc = "computeReward"
    /\ ret = "pending"
    /\ logs = {}
    /\ mods = RepoCollectors
    /\ FanUnset
    /\ MetaUnset
    /\ CrUnset
    /\ MixUnset
    /\ TailUnset
    /\ callScore \in ScoreArgs
    /\ callMinerId = UndefV
    /\ ledger = UndefV
    /\ rewardOut = NoCall
    /\ DetUnset
    /\ ScoreUnset
    /\ MoreUnset

InitAward ==
    /\ pc = "awardTokensToBalance"
    /\ ret = "pending"
    /\ logs = {}
    /\ mods = RepoCollectors
    /\ FanUnset
    /\ MetaUnset
    /\ CrUnset
    /\ MixUnset
    /\ TailUnset
    /\ callScore \in ScoreArgs
    /\ callMinerId \in MinerArgs
    /\ ledger \in LedgerArgs
    /\ rewardOut = NoCall
    /\ DetUnset
    /\ ScoreUnset
    /\ MoreUnset

\* one call of computeReward
CallComputeReward ==
    /\ pc = "computeReward"
    /\ rewardOut' = computeReward(callScore)
    /\ pc' = "computeReward:done"
    /\ UNCHANGED <<ret, logs, fanVars, metaVars, crVars, mixVars, tailVars,
                   callScore, callMinerId, ledger, detVars, scoreVars, moreVars>>

\* one call of awardTokensToBalance
CallAward ==
    /\ pc = "awardTokensToBalance"
    /\ rewardOut' = awardTokensToBalance(callMinerId, ledger, callScore)
    /\ ledger' = BalancesAfter(callMinerId, ledger, callScore)
    /\ pc' = "awardTokensToBalance:done"
    /\ UNCHANGED <<ret, logs, fanVars, metaVars, crVars, mixVars, tailVars,
                   callScore, callMinerId, detVars, scoreVars, moreVars>>

NextReward ==
    \/ CallComputeReward
    \/ CallAward

SpecReward == (InitReward \/ InitAward) /\ [][NextReward]_vars

\* calls of the three functions that reject their input
NextBoundary ==
    \/ CallComputeReward
    \/ CallAward
    \/ MixCall

SpecBoundary == (InitReward \/ InitAward \/ InitMix) /\ [][NextBoundary]_vars

----------------------------------------------------------------------------
(* detectCheating as a function of its arguments *)

\* n distinct bytes 0, 1, ..., n - 1
Ramp(n) == [i \in 1..n |-> i - 1]

\* b with its first k bytes replaced by 255
Altered(b, k) == [i \in 1..Len(b) |-> IF i <= k THEN 255 ELSE b[i]]

\* buffers: every buffer of up to MaxBuf bytes over 'A' and 'B'; and, at the
\* lengths 16 (the shortest that can hold 4 bits per byte) and 20 (the
\* shortest of which 85% is a whole number), distinct bytes with the first k
\* replaced by one value
DetBuffers ==
    UNION {[1..n -> {65, 66}] : n \in 0..MaxBuf}
    \cup {Altered(Ramp(n), k) : n \in {16, 20}, k \in 0..20}

InitDetect ==
    /\ pc = "detectCheating"
    /\ ret = "pending"
    /\ logs = {}
    /\ mods = RepoCollectors
    /\ FanUnset
    /\ MetaUnset
    /\ CrUnset
    /\ MixUnset
    /\ TailUnset
    /\ RewardUnset
    /\ MoreUnset
    /\ detCurrent \in DetBuffers
    /\ detPrevious \in {NullV} \cup {BufV(b) : b \in DetBuffers}
    /\ detectOut = NoCall
    /\ ScoreUnset

\* one call of detectCheating
CallDetect ==
    /\ pc = "detectCheating"
    /\ detectOut' = detectCheating(detCurrent, detPrevious)
    /\ pc' = "detectCheating:done"
    /\ UNCHANGED <<ret, logs, fanVars, metaVars, crVars, mixVars, tailVars,
                   rewardVars, detCurrent, detPrevious, scoreVars, moreVars>>

NextDetect == CallDetect

SpecDetect == InitDetect /\ [][NextDetect]_vars

----------------------------------------------------------------------------
(* computeUniquenessScore as a function of its arguments *)

\* entries of allRandomness: null, undefined, the empty Buffer, the empty
\* string, one byte, 32 distinct bytes, and a number
ScoreItems ==
    {NullV, UndefV, BufV(<<>>), StrV(<<>>), BufV(<<65>>), BufV(Ramp(32)), IntV(7)}

\* allRandomness: an array of up to MaxContribs entries, or one entry that is
\* not in an array
ScoreArgLists ==
    {[isArray |-> TRUE, items |-> it] :
        it \in UNION {[1..n -> ScoreItems] : n \in 0..MaxContribs}}
    \cup {[isArray |-> FALSE, items |-> <<x>>] : x \in ScoreItems}

\* options: omitted, null, or an object with previousRounds absent, empty or
\* holding a buffer or a number; maxBits absent, 8, 2048 or -8; weights
\* absent, entropy alone at 1, or all four at -1, or all four at 2
ScoreOptions ==
    {UndefV, NullV}
    \cup [t : {"obj"},
          previousRounds : {[isArray |-> FALSE, items |-> <<>>],
                            [isArray |-> TRUE, items |-> <<>>],
                            [isArray |-> TRUE, items |-> <<BufV(Ramp(32))>>],
                            [isArray |-> TRUE, items |-> <<IntV(7), BufV(<<66>>)>>]},
          maxBits : {0, 8, 2048, -8},
          weights : {<<>>,
                     [entropy |-> 1000],
                     [entropy |-> -1000, nonRepeat |-> -1000, amount |-> -1000,
                      variation |-> -1000],
                     [entropy |-> 2000, nonRepeat |-> 2000, amount |-> 2000,
                      variation |-> 2000]}]

InitScore ==
    /\ pc = "computeUniquenessScore"
    /\ ret = "pending"
    /\ logs = {}
    /\ mods = RepoCollectors
    /\ FanUnset
    /\ MetaUnset
    /\ CrUnset
    /\ MixUnset
    /\ TailUnset
    /\ RewardUnset
    /\ MoreUnset
    /\ DetUnset
    /\ scContribs \in ScoreArgLists
    /\ scOptions \in ScoreOptions
    /\ scoreOut = NoCall

\* one call of computeUniquenessScore
CallScore ==
    /\ pc = "computeUniquenessScore"
    /\ scoreOut' = computeUniquenessScore(scContribs, scOptions)
    /\ pc' = "computeUniquenessScore:done"
    /\ UNCHANGED <<ret, logs, fanVars, metaVars, crVars, mixVars, tailVars,
                   rewardVars, detVars, scContribs, scOptions, moreVars>>

NextScore == CallScore

SpecScore == InitScore /\ [][NextScore]_vars

----------------------------------------------------------------------------
(* normalizeToBuffer as a function of its argument *)

NormStrLen == 4

\* strings of up to NormStrLen characters over '0', 'a', 'x' and 'z': hex of
\* even and odd length, hex behind the prefix 0x, text that is not hex
NormStrings == UNION {[1..n -> {48, 97, 120, 122}] : n \in 0..NormStrLen}

\* collector outputs: a Buffer (empty or not), a string, an object with a
\* string hex field, an object without one, undefined, null, NaN, 0, 7, true
\* and a function
NormArgs ==
    {BufV(<<>>), BufV(<<10, 171>>), ObjV(<<>>), UndefV, NullV, NaNV, IntV(0), IntV(7),
     OtherV, FuncV}
    \cup {StrV(str) : str \in NormStrings}
    \cup {ObjHexV(str) : str \in NormStrings}

InitNormalize ==
    /\ pc = "normalizeToBuffer"
    /\ ret = "pending"
    /\ logs = {}
    /\ mods = RepoCollectors
    /\ FanUnset
    /\ MetaUnset
    /\ CrUnset
    /\ MixUnset
    /\ TailUnset
    /\ RewardUnset
    /\ DetUnset
    /\ ScoreUnset
    /\ normX \in NormArgs
    /\ normR \in RandomBytes(FallbackLen)
    /\ normOut = NoCall
    /\ LedUnset
    /\ PtrUnset

\* one call of normalizeToBuffer
CallNormalize ==
    /\ pc = "normalizeToBuffer"
    /\ normOut' = [st |-> "returned", bytes |-> normalizeToBuffer(normX, normR)]
    /\ pc' = "normalizeToBuffer:done"
    /\ UNCHANGED <<ret, logs, fanVars, metaVars, crVars, mixVars, tailVars,
                   rewardVars, detVars, scoreVars, normX, normR, ledVars, ptrVars>>

NextNormalize == CallNormalize

SpecNormalize == InitNormalize /\ [][NextNormalize]_vars

----------------------------------------------------------------------------
(* a ledger threaded through successive calls of awardTokensToBalance *)

MaxAwards == 3

\* minerId arguments: "m1", "m2", "valueOf"; the empty string and 7, which
\* are rejected
LedgerMiners ==
    {StrV(m) : m \in Miners}
    \cup {StrV(<<118, 97, 108, 117, 101, 79, 102>>), StrV(<<>>), IntV(7)}

\* score arguments: one score of each bracket; NaN and undefined, which are
\* rejected
LedgerScores == {IntV(0), IntV(50), IntV(81), NaNV, UndefV}

InitLedger ==
    /\ pc = "ledger"
    /\ ret = "pending"
    /\ logs = {}
    /\ mods = RepoCollectors
    /\ FanUnset
    /\ MetaUnset
    /\ CrUnset
    /\ MixUnset
    /\ TailUnset
    /\ callScore = UndefV
    /\ callMinerId = UndefV
    /\ ledger = ObjV(<<>>)
    /\ rewardOut = NoCall
    /\ DetUnset
    /\ ScoreUnset
    /\ NormUnset
    /\ paid = <<>>
    /\ nAwards = 0
    /\ PtrUnset

\* the tokens awarded to each contributor so far, after one more award
PaidAfter(p, m, tokens) ==
    [k \in DOMAIN p \cup {m} |->
        (IF k \in DOMAIN p THEN p[k] ELSE 0) + (IF k = m THEN tokens ELSE 0)]

\* balances = awardTokensToBalance(minerId, balances, score).updatedBalances,
\* or the ledger as it was if the call threw
AwardOnLedger ==
    /\ pc = "ledger"
    /\ nAwards < MaxAwards
    /\ \E m \in LedgerMiners, sc \in LedgerScores :
        LET out == awardTokensToBalance(m, ledger, sc)
        IN  /\ callMinerId' = m
            /\ callScore' = sc
            /\ rewardOut' = out
            /\ IF out.st = "returned"
               THEN /\ ledger' = out.updatedBalances
                    /\ paid' = PaidAfter(paid, m.v, out.awarded)
               ELSE /\ ledger' = BalancesAfter(m, ledger, sc)
                    /\ paid' = paid
    /\ nAwards' = nAwards + 1
    /\ UNCHANGED <<pc, ret, logs, fanVars, metaVars, crVars, mixVars, tailVars,
                   detVars, scoreVars, normVars, ptrVars>>

NextLedger == AwardOnLedger

SpecLedger == InitLedger /\ [][NextLedger]_vars

----------------------------------------------------------------------------
(* collectors/mouseCollector.js *)

MaxClock == 4

\* the options objects startMouseCollector is called with: none, or overrides
\* of sampleLimit (0, 1 or 2) and of sampleMinDeltaMs (2)
StartOptions ==
    {<<>>}
    \cup {[k \in {"sampleLimit"} |-> n] : n \in 0..2}
    \cup {[k \in {"sampleLimit", "sampleMinDeltaMs"} |-> IF k = "sampleLimit" THEN n ELSE 2] :
              n \in 1..2}

\* { ...DEFAULT_OPTIONS, ...options }
Spread(defaults, options) ==
    [k \in DOMAIN defaults |-> IF k \in DOMAIN options THEN options[k] ELSE defaults[k]]

\* the pointer positions of an event, rounded
Points == {[x |-> 0, y |-> 0], [x |-> 1, y |-> 0]}

\* the handler with a pop for the shift: the newest sample is evicted
HandlerSamples_EvictNewest(smp, o, p, t) ==
    IF o.sampleMinDeltaMs > 0 /\ Len(smp) > 0 /\ t - smp[Len(smp)].t < o.sampleMinDeltaMs
    THEN smp
    ELSE LET pushed == Append(smp, [x |-> p.x, y |-> p.y, t |-> t])
         IN  IF Len(pushed) > o.sampleLimit THEN SubSeq(pushed, 1, Len(pushed) - 1)
             ELSE pushed

\* mouseCollector.js:28-42: samples after the handler ran on an event at
\* position p and time t
HandlerSamples(smp, o, p, t) ==
    IF o.sampleMinDeltaMs > 0 /\ Len(smp) > 0 /\ t - smp[Len(smp)].t < o.sampleMinDeltaMs
    THEN smp
    ELSE LET pushed == Append(smp, [x |-> p.x, y |-> p.y, t |-> t])
         IN  IF Len(pushed) > o.sampleLimit THEN Tail(pushed) ELSE pushed

InitPointer ==
    /\ pc = "mouseCollector"
    /\ ret = "pending"
    /\ logs = {}
    /\ mods = RepoCollectors
    /\ FanUnset
    /\ MetaUnset
    /\ CrUnset
    /\ MixUnset
    /\ TailUnset
    /\ RewardUnset
    /\ DetUnset
    /\ ScoreUnset
    /\ NormUnset
    /\ LedUnset
    /\ PtrUnset

\* mouseCollector.js:23-46
startMouseCollector ==
    /\ \E options \in StartOptions :
        IF running
        THEN UNCHANGED <<mcOpts, samples, running, pointerHandler, listening>>
        ELSE /\ mcOpts' = Spread(DEFAULT_OPTIONS, options)
             /\ samples' = <<>>
             /\ pointerHandler' = "handler"
             /\ listening' = TRUE
             /\ running' = TRUE
    /\ pc' = "startMouseCollector"
    /\ UNCHANGED <<ret, logs, fanVars, metaVars, crVars, mixVars, tailVars,
                   rewardVars, detVars, scoreVars, normVars, ledVars, mcClock, chunkOut>>

\* mouseCollector.js:48-53
stopMouseCollector ==
    /\ IF ~running
       THEN UNCHANGED <<running, pointerHandler, listening>>
       ELSE /\ listening' = FALSE
            /\ pointerHandler' = "null"
            /\ running' = FALSE
    /\ pc' = "stopMouseCollector"
    /\ UNCHANGED <<ret, logs, fanVars, metaVars, crVars, mixVars, tailVars,
                   rewardVars, detVars, scoreVars, normVars, ledVars,
                   mcOpts, samples, mcClock, chunkOut>>

\* mouseCollector.js:59-61
clearSamples ==
    /\ samples' = <<>>
    /\ pc' = "clearSamples"
    /\ UNCHANGED <<ret, logs, fanVars, metaVars, crVars, mixVars, tailVars,
                   rewardVars, detVars, scoreVars, normVars, ledVars,
                   mcOpts, running, pointerHandler, listening, mcClock, chunkOut>>

\* window dispatches a pointermove event dt after the last one: the handler
\* runs if it is registered
PointerMove ==
    /\ \E dt \in 1..2, p \in Points :
        /\ mcClock + dt <= MaxClock
        /\ mcClock' = mcClock + dt
        /\ samples' = IF listening THEN HandlerSamples(samples, mcOpts, p, mcClock')
                      ELSE samples
    /\ pc' = "pointermove"
    /\ UNCHANGED <<ret, logs, fanVars, metaVars, crVars, mixVars, tailVars,
                   rewardVars, detVars, scoreVars, normVars, ledVars,
                   mcOpts, running, pointerHandler, listening, chunkOut>>

\* mouseCollector.js:85-142: the chunk is the SHA-512 of the round id, the
\* secret, the time, the fingerprint and the samples of a copy of the array
getEntropyChunk ==
    /\ \E id \in {<<>>, <<114>>} :
        chunkOut' = [st |-> "fulfilled", alg |-> "SHA-512", roundId |-> id,
                     secret |-> <<>>, now |-> mcClock, snap |-> samples]
    /\ pc' = "getEntropyChunk"
    /\ UNCHANGED <<ret, logs, fanVars, metaVars, crVars, mixVars, tailVars,
                   rewardVars, detVars, scoreVars, normVars, ledVars,
                   mcOpts, samples, running, pointerHandler, listening, mcClock>>

NextPointer ==
    \/ startMouseCollector
    \/ stopMouseCollector
    \/ clearSamples
    \/ PointerMove
    \/ getEntropyChunk

SpecPointer == InitPointer /\ [][NextPointer]_vars

----------------------------------------------------------------------------
(* Claims about runRound up to the hashing of E *)

Fails(m) == m.kind \in {"nocollect", "throws", "rejects"}

\* C1: every runRound that has ended either returned a complete round record
\* or aborted because commit verification failed
C1_EndsWithRecordOrVerifyAbort ==
    pc = "end" =>
        \/ ret = "record" /\ Len(record) = 1
        \/ ret = "undefined" /\ recomputed # commit

\* C2: a collector whose collect() never settles still gets a fallback value,
\* so the collection phase completes
C2_HungCollectorGetsFallback ==
    \A c \in CollectorNames :
        (pc = "L87" /\ mods[c].kind = "hangs") ~> (calls[c] = "settled")

\* C3: whichever collectors throw, reject or lack collect(), and in whatever
\* order the others complete: a failing collector contributes 32 fallback
\* bytes, every other collector the normalized value it returned, no error
\* leaves the fan-out, and the collection step ends with all four buffers
C3_FailureIsolatedFanOut ==
    /\ pc \in {"L87", "L94"} => ret = "pending"
    /\ pc = "L94" => \A c \in CollectorNames : calls[c] = "settled"
    /\ \A c \in CollectorNames :
        calls[c] = "settled" =>
            /\ Fails(mods[c]) => bufs[c] \in RandomBytes(FallbackLen)
            /\ mods[c] = [kind |-> "resolves", out |-> BufV(<<10, 171>>)]
                   => bufs[c] = <<10, 171>>
            /\ mods[c] = [kind |-> "resolves", out |-> StrV(<<48, 97>>)]
                   => bufs[c] = <<10>>

\* three collectors fail in the three ways, the fourth returns a Buffer, and
\* the collection step has completed
C3_Witness ==
    /\ pc = "L94"
    /\ mods["mouse"].kind = "nocollect"
    /\ mods["keyboard"].kind = "throws"
    /\ mods["cpu"].kind = "rejects"
    /\ mods["crypto"] = [kind |-> "resolves", out |-> StrV(<<48, 97>>)]

----------------------------------------------------------------------------
(* Claims about the commitment, its verification and the round seed *)

Committed == commit # NoDigest
Checked == recomputed # NoDigest

\* C4: recomputing the commitment from the same (E, s, id) gives the recorded
\* commitment, and recomputing it with one of E, s, id changed does not
C4_CommitmentRoundTrip ==
    Checked =>
        /\ reveal = [E |-> E_i, s |-> s_i, id |-> roundId] => recomputed = commit
        /\ reveal # [E |-> E_i, s |-> s_i, id |-> roundId] => recomputed # commit

\* a reveal whose round id alone was changed has been verified
C4_Witness ==
    /\ Checked
    /\ reveal.E = E_i
    /\ reveal.s = s_i
    /\ reveal.id # roundId

CRState ==
    IF ~Committed THEN "Built"
    ELSE IF ~Checked THEN "Committed"
    ELSE IF recomputed = commit THEN "Verified"
    ELSE "Failed"

\* C6: the commitment is recorded before E and the secret go to any later
\* stage, it is verified only after it is recorded, the mixer gets the reveal
\* only in state Verified, and the state moves Built -> Committed ->
\* (Verified | Failed) with Verified and Failed final
C6_CommitRevealOrder ==
    /\ [](/\ Checked => Committed
          /\ reveal # NoReveal => Committed
          /\ (reveals # <<>> \/ inputs # NoInputs \/ mixOut # NoMix)
                => CRState = "Verified")
    /\ [][\/ CRState' = CRState
          \/ <<CRState, CRState'>> \in {<<"Built", "Committed">>,
                                         <<"Committed", "Verified">>,
                                         <<"Committed", "Failed">>}]_vars

\* the mixer has been called on the verified reveal
C6_Witness ==
    /\ pc = "L140"
    /\ mixOut.st = "fulfilled"
    /\ CRState = "Verified"

----------------------------------------------------------------------------
(* Claims about the mixer as a function, and about the returned record *)

\* C7: the pre-image mixRandomness hashes is the salt (if present), the round
\* id bytes (if present), the previous-hash bytes (if present), then the
\* contributions in some permutation; the shuffled pieces are the
\* contributions, each exactly once; and the call leaves the caller's array as
\* it was
C7_PreImageIsMetadataThenPermutation ==
    /\ [](mixOut.st = "fulfilled" =>
            LET n == Len(inputs.items)
                piece == [k \in 1..n |-> mixToBuffer(inputs.items[k])]
                salt == IF opts.salt = StrV(<<115>>) THEN <<115>> ELSE <<>>
                round == IF opts.roundId = StrV(<<114, 49>>) THEN <<114, 49>> ELSE <<>>
                prev == IF opts.prevHash = StrV(<<97, 98>>) THEN <<171>> ELSE <<>>
            IN  \E p \in Permutations(1..n) :
                    LET perm == [k \in 1..n |-> piece[p[k]]]
                    IN  /\ mixOut.shuffledHex = [k \in 1..n |-> ToHex(perm[k])]
                        /\ mixOut.preImageHex = ToHex(salt \o round \o prev \o Concat(perm))
                        /\ mixOut.finalHash = sha256Hex(salt \o round \o prev \o Concat(perm)))
    /\ [][inputs' = inputs]_vars

\* three distinct contributions have been mixed with all three options present
\* and have come out in another order
C7_Witness ==
    /\ pc = "mixed"
    /\ mixOut.st = "fulfilled"
    /\ inputs.items = <<BufV(<<1>>), StrV(<<48, 97>>), StrV(<<104, 105>>)>>
    /\ opts = [salt |-> StrV(<<115>>), roundId |-> StrV(<<114, 49>>),
               prevHash |-> StrV(<<97, 98>>)]
    /\ mixOut.shuffledHex # <<ToHex(<<1>>), ToHex(<<10>>), ToHex(<<104, 105>>)>>

----------------------------------------------------------------------------
(* Claims about the reward engine and the rejection of input errors *)

\* C11: for every integer score computeReward clamps it to 0..100 and returns
\* 5 tokens ('High Entropy') above 80, 3 tokens ('Medium Entropy') from 50 to
\* 80 and 1 token ('Low Entropy') below 50, with the clamped score in the
\* score field
C11_RewardBrackets ==
    \A k \in (0 - ScoreSpan)..(100 + ScoreSpan) :
        (pc = "computeReward:done" /\ callScore = IntV(k)) =>
            LET c == IF k < 0 THEN 0 ELSE IF k > 100 THEN 100 ELSE k
            IN  /\ rewardOut.st = "returned"
                /\ rewardOut.score = c
                /\ c > 80 => rewardOut.tokens = 5 /\ rewardOut.category = "High Entropy"
                /\ (50 <= c /\ c <= 80) =>
                       rewardOut.tokens = 3 /\ rewardOut.category = "Medium Entropy"
                /\ c < 50 => rewardOut.tokens = 1 /\ rewardOut.category = "Low Entropy"

\* computeReward(80) has returned: the top of the middle bracket
C11_Witness ==
    /\ pc = "computeReward:done"
    /\ callScore = IntV(80)
    /\ rewardOut.st = "returned"
    /\ rewardOut.tokens = 3

\* C12: awardTokensToBalance returns a new ledger in which minerId's balance
\* is its previous balance (0 if absent) plus computeReward(score).tokens and
\* every other balance is unchanged, and the caller's ledger is not modified
C12_AwardAddsToOneBalance ==
    [][(pc = "awardTokensToBalance" /\ rewardOut'.st = "returned") =>
        LET old == IF ledger.t = "undef" THEN <<>> ELSE ledger.v
            new == rewardOut'.updatedBalances.v
            m == callMinerId.v
            prev == IF m \in DOMAIN old THEN old[m] ELSE IntV(0)
        IN  /\ rewardOut'.awarded = computeReward(callScore).tokens
            /\ DOMAIN new = DOMAIN old \cup {m}
            /\ new[m] = NumV(prev.v[1] + rewardOut'.awarded * NumUnit)
            /\ \A k \in DOMAIN old \ {m} : new[k] = old[k]
            /\ ledger' = ledger]_vars

\* C13: computeReward with a non-number or NaN score, awardTokensToBalance
\* with a non-string or empty minerId, a non-object ledger or an invalid
\* score, and mixRandomness with a non-array end with an error and no result;
\* the caller's ledger is then as it was, and a result comes only from valid
\* arguments
C13_InputErrorsRejected ==
    [][/\ pc = "computeReward" =>
            (rewardOut'.st = "threw" <=> callScore.t # "num")
       /\ pc = "awardTokensToBalance" =>
            /\ rewardOut'.st = "threw" <=>
                   \/ callMinerId.t # "str"
                   \/ callMinerId.v = <<>>
                   \/ ledger.t \notin {"obj", "undef"}
                   \/ callScore.t # "num"
            /\ rewardOut'.st = "threw" => ledger' = ledger
       /\ pc = "mix" =>
            (~inputs.isArray => mixOut'.st = "rejected" /\ mixOut'.finalHash = NoDigest)
      ]_vars

\* an award to the empty miner id on a ledger holding a balance was rejected
C13_Witness ==
    /\ pc = "awardTokensToBalance:done"
    /\ callMinerId = StrV(<<>>)
    /\ callScore = IntV(81)
    /\ ledger.t = "obj"
    /\ <<109, 49>> \in DOMAIN ledger.v
    /\ rewardOut.st = "threw"

----------------------------------------------------------------------------
(* Claims about the cheat detector *)

\* some byte value holds more than half of the positions of the current buffer
Majority == \E b \in 0..255 : 2 * Count(detCurrent, b) > Len(detCurrent)

\* a previous buffer was supplied and more than 85% of the positions of the
\* shorter length hold the same byte in both
Over85 ==
    /\ detPrevious.t = "buf"
    /\ LET n == IF Len(detCurrent) < Len(detPrevious.v) THEN Len(detCurrent)
                ELSE Len(detPrevious.v)
       IN  100 * Cardinality({i \in 1..n : detCurrent[i] = detPrevious.v[i]}) > 85 * n

\* the Shannon entropy of the current buffer is below 4 bits per byte
Below4Bits ==
    \/ detCurrent = <<>>
    \/ calculateEntropy(detCurrent) < 4000000 * Len(detCurrent)

Repeated == "Too many repeated values (low randomness)"
Similar == "Randomness is suspiciously similar to previous round"

\* C14: repetition, then similarity, then the entropy floor: the first check
\* that triggers gives the reason, whatever the later ones would find, and
\* {cheated: false, reason: null} comes only when none triggers
C14_FirstCheckWins ==
    pc = "detectCheating:done" =>
        /\ Majority => detectOut = Cheated(Repeated)
        /\ (~Majority /\ Over85) => detectOut = Cheated(Similar)
        /\ (~Majority /\ ~Over85 /\ Below4Bits) => detectOut = Cheated("Entropy too low")
        /\ detectOut = NotCheated <=> (~Majority /\ ~Over85 /\ ~Below4Bits)

\* a buffer that triggers all three checks has been reported as repetition
C14_Witness ==
    /\ pc = "detectCheating:done"
    /\ Majority
    /\ Over85
    /\ Below4Bits
    /\ detectOut.reason = Repeated

\* C15: the repetition reason is given if and only if some byte value holds
\* strictly more than half of the buffer's positions
C15_RepetitionAboveHalf ==
    pc = "detectCheating:done" => (detectOut.reason = Repeated <=> Majority)

\* a buffer half of whose bytes are one value was not reported as repetition
C15_Witness ==
    /\ pc = "detectCheating:done"
    /\ detCurrent = <<65, 65, 66, 66>>
    /\ detectOut.reason # Repeated

\* C16: when the repetition check has not triggered, the similarity reason is
\* given if and only if a previous buffer was supplied and strictly more than
\* 85% of the positions of the shorter length are equal
C16_SimilarityAbove85 ==
    (pc = "detectCheating:done" /\ ~Majority) =>
        (detectOut.reason = Similar <=> Over85)

\* 17 of 20 positions equal, exactly 85%: not reported
C16_Witness ==
    /\ pc = "detectCheating:done"
    /\ detCurrent = Ramp(20)
    /\ detPrevious = BufV(Altered(Ramp(20), 3))
    /\ detectOut = NotCheated

\* C17 as stated: for every buffer B, detectCheating(B, B) returns cheated
\* with the similarity reason
C17_SameBufferIsSimilar ==
    (pc = "detectCheating:done" /\ detPrevious = BufV(detCurrent)) =>
        detectOut = Cheated(Similar)

\* C17 amended: detectCheating(B, B) returns cheated for every B, with the
\* similarity reason when B is not empty and no byte value holds more than
\* half of it, the repetition reason when one does, and the entropy reason
\* when B is empty
C17_SameBufferIsFlagged ==
    (pc = "detectCheating:done" /\ detPrevious = BufV(detCurrent)) =>
        /\ detectOut.cheated
        /\ (detCurrent # <<>> /\ ~Majority) => detectOut.reason = Similar
        /\ Majority => detectOut.reason = Repeated
        /\ detCurrent = <<>> => detectOut.reason = "Entropy too low"

\* 16 distinct bytes, which alone pass every check, given as both arguments
C17_Witness ==
    /\ pc = "detectCheating:done"
    /\ detCurrent = Ramp(16)
    /\ detPrevious = BufV(Ramp(16))
    /\ detectOut.reason = Similar

----------------------------------------------------------------------------
(* Claims about the uniqueness scorer *)

\* the contributions are none, or null and undefined entries only
NoContributions ==
    \A k \in 1..Len(scContribs.items) : scContribs.items[k].t \in {"null", "undef"}

\* there are contributions, and each is an empty Buffer or an empty string,
\* null and undefined entries aside
OnlyEmptyBuffers ==
    /\ ~NoContributions
    /\ \A k \in 1..Len(scContribs.items) :
           \/ scContribs.items[k].t \in {"null", "undef"}
           \/ scContribs.items[k] \in {BufV(<<>>), StrV(<<>>)}

\* C18: on an empty contribution set (no entries, or null and undefined
\* entries only) computeUniquenessScore returns score 0, category 'Low' and
\* the four sub-scores 0, and does not throw, whatever the options
C18_EmptySetScoresZero ==
    (pc = "computeUniquenessScore:done" /\ NoContributions) =>
        /\ scoreOut.st = "returned"
        /\ scoreOut.score = 0
        /\ scoreOut.category = "Low"
        /\ scoreOut.entropyNorm = 0
        /\ scoreOut.nonRepeatNorm = 0
        /\ scoreOut.amountNorm = 0
        /\ scoreOut.variationNorm = 0

\* an array of null and undefined has been scored with null as the options
C18_Witness ==
    /\ pc = "computeUniquenessScore:done"
    /\ scContribs = [isArray |-> TRUE, items |-> <<NullV, UndefV>>]
    /\ scOptions = NullV
    /\ scoreOut.st = "returned"

\* C19: contributions that are all of length zero give the minimum result,
\* score 0 and category 'Low' as for the empty contribution set, and no
\* exception
C19_EmptyBuffersScoreZero ==
    (pc = "computeUniquenessScore:done" /\ OnlyEmptyBuffers /\ scOptions # NullV) =>
        /\ scoreOut.st = "returned"
        /\ scoreOut.score = 0
        /\ scoreOut.category = "Low"

\* C20: for every contribution set, list of prior-round buffers and override
\* of weights and maxBits, the score is an integer in 0..100 and each
\* sub-score lies in [0, 1]
C20_ScoreAndSubScoresInRange ==
    (pc = "computeUniquenessScore:done" /\ scoreOut.st = "returned") =>
        /\ scoreOut.score \in 0..100
        /\ scoreOut.entropyNorm \in 0..1000
        /\ scoreOut.nonRepeatNorm \in 0..1000
        /\ scoreOut.amountNorm \in 0..1000
        /\ scoreOut.variationNorm \in 0..1000

----------------------------------------------------------------------------
(* Claims about what the returned record discloses *)

\* the string sub occurs in the string str
Occurs(sub, str) ==
    \E off \in 0..(Len(str) - Len(sub)) :
        \A i \in 1..Len(sub) : str[off + i] = sub[i]

\* the strings a holder of the record can read from its R_round field: the
\* field holds the mixer's promise, which fulfils with the mixer's result
SeedStrings(rec) ==
    IF rec.R_round.t = "promise" /\ mixOut.st = "fulfilled"
    THEN {mixOut.shuffledHex[k] : k \in 1..Len(mixOut.shuffledHex)}
         \cup {mixOut.preImageHex}
    ELSE {}

\* the strings of the record outside its commitments
RecordStrings(rec) == {rec.round_id, rec.prev_root_hash} \cup SeedStrings(rec)

----------------------------------------------------------------------------
(* Claims about normalizeToBuffer *)

\* C22: normalizeToBuffer returns for every argument: a Buffer as it is, an
\* even-length hex string as the bytes it spells, any other string as its
\* UTF-8 bytes, and the 32 random bytes for null, undefined, a value of any
\* other shape and an object whose hex field is missing or is not valid hex
C22_NormalizeTotalWithFallback ==
    pc = "normalizeToBuffer:done" =>
        /\ normOut.st = "returned"
        /\ normX.t = "buf" => normOut.bytes = normX.v
        /\ normX.t = "str" =>
               IF IsHexString(normX.v) /\ Len(normX.v) % 2 = 0
               THEN normOut.bytes = FromHex(normX.v)
               ELSE normOut.bytes = normX.v
        /\ \/ normX.t \in {"undef", "null", "other", "function", "obj", "num", "NaN"}
           \/ normX.t = "objhex" /\ ~IsHexString(normX.v)
           => normOut.bytes = normR /\ Len(normOut.bytes) = FallbackLen

----------------------------------------------------------------------------
(* Claims about the cheat detector's place in the round *)

\* the byte buffers of the round before mixing: what the collectors gave, and
\* the bytes of the entropy digest E
ContributionBuffers == {bufs[c] : c \in CollectorNames} \cup {FromHex(E_i)}

----------------------------------------------------------------------------
(* Claims about the reward brackets on scores that are not integers *)

\* C24: for every score from 0 to 100, in steps of 1/NumUnit, computeReward
\* returns 5 tokens exactly when the score passed is above 80, 3 tokens
\* exactly when it is from 50 to 80, and 1 token exactly when it is below 50
C24_BracketsOnThePassedScore ==
    (/\ pc = "computeReward:done"
     /\ callScore.t = "num"
     /\ callScore.v[1] \in 0..(100 * NumUnit)) =>
        LET x == callScore.v[1]
        IN  /\ rewardOut.st = "returned"
            /\ rewardOut.tokens = 5 <=> x > 80 * NumUnit
            /\ rewardOut.tokens = 3 <=> (50 * NumUnit <= x /\ x <= 80 * NumUnit)
            /\ rewardOut.tokens = 1 <=> x < 50 * NumUnit

----------------------------------------------------------------------------
(* Claims about the ledger over a sequence of awards *)

\* C25: along every sequence of awardTokensToBalance calls that starts from
\* the empty ledger and passes each returned ledger to the next call, a
\* successful call raises exactly one balance, by 1, 3 or 5, and leaves every
\* other balance as it was, a rejected call leaves the ledger as it was, and
\* after every call each balance is a non-negative integer equal to the sum
\* of the tokens awarded to that contributor
C25_LedgerIsSumOfAwards ==
    [][pc = "ledger" =>
        /\ IF rewardOut'.st = "returned"
           THEN LET m == callMinerId'.v
                    prev == IF m \in DOMAIN ledger.v THEN ledger.v[m] ELSE IntV(0)
                IN  /\ rewardOut'.awarded \in {1, 3, 5}
                    /\ DOMAIN ledger'.v = DOMAIN ledger.v \cup {m}
                    /\ ledger'.v[m] = Plus(prev, rewardOut'.awarded)
                    /\ \A k \in DOMAIN ledger.v \ {m} : ledger'.v[k] = ledger.v[k]
           ELSE ledger' = ledger
        /\ DOMAIN ledger'.v = DOMAIN paid'
        /\ \A k \in DOMAIN ledger'.v :
               /\ ledger'.v[k] = IntV(paid'[k])
               /\ paid'[k] >= 0
      ]_vars

----------------------------------------------------------------------------
(* Claims about the pointer collector *)

\* C26: after any sequence of startMouseCollector, pointermove events,
\* stopMouseCollector, clearSamples and getEntropyChunk, the samples held are
\* never more than sampleLimit; a sample added at the limit evicts the oldest
\* and is itself kept;
\* samples are added only while the collector is running; startMouseCollector
\* while running changes neither the options nor the samples; stopping keeps
\* the samples and, while stopped, changes nothing; and getEntropyChunk leaves
\* the samples as they were
C26_PointerCollectorSamples ==
    /\ [](Len(samples) <= mcOpts.sampleLimit)
    /\ [][/\ (pc' = "pointermove" /\ samples' # samples) =>
                /\ running
                /\ \E smp \in {samples'[Len(samples')]} :
                       \/ samples' = Append(samples, smp)
                       \/ /\ Len(samples) = mcOpts.sampleLimit
                          /\ samples' = Tail(Append(samples, smp))
          /\ (pc' = "pointermove" /\ running /\ mcOpts.sampleMinDeltaMs = 0
                 /\ mcOpts.sampleLimit > 0) =>
                (samples' # <<>> /\ samples'[Len(samples')].t = mcClock')
          /\ ~running => (samples' = samples \/ samples' = <<>>)
          /\ (pc' = "startMouseCollector" /\ running) =>
                (mcOpts' = mcOpts /\ samples' = samples)
          /\ pc' = "stopMouseCollector" =>
                /\ samples' = samples
                /\ ~running => UNCHANGED ptrVars
          /\ pc' = "getEntropyChunk" => samples' = samples
         ]_vars

\* with sampleLimit 2, getEntropyChunk copied the samples taken at times 1 and
\* 2, and after one more event the collector holds those of times 2 and 3
C26_Witness ==
    /\ running
    /\ mcOpts.sampleLimit = 2
    /\ chunkOut.st = "fulfilled"
    /\ Len(chunkOut.snap) = 2
    /\ chunkOut.snap[1].t = 1
    /\ chunkOut.snap[2].t = 2
    /\ Len(samples) = 2
    /\ samples[1] = chunkOut.snap[2]
    /\ samples[2].t = 3

====
